---------------------------- MODULE Spec2Model ----------------------------
(***************************************************************************)
(* Model of package logs (src/logs/level.go) of reginald-sdk-go: the Level *)
(* type, its canonical string encoding (Level.String), its parser          *)
(* (Level.parse) and the JSON / text marshalling hooks built on them.      *)
(*                                                                         *)
(* A Go string or []byte is modelled as a sequence of byte values (0..255);*)
(* Bytes(<<"I","N","F","O">>) writes the literal "INFO".  A Level is an    *)
(* integer.  Go's Level is a 64-bit int; the model checker's integers are  *)
(* 32 bits wide, so the levels and offsets the model computes with stay    *)
(* far inside both ranges, and the 64-bit limits of strconv.Atoi are       *)
(* decided on the digit strings themselves (DecGT), not on their values.   *)
(***************************************************************************)
EXTENDS Integers, Sequences, FiniteSets

(***************************************************************************)
(* Byte strings                                                            *)
(***************************************************************************)

\* The printable ASCII characters in code order: Printable[i] has code 31 + i
\* (the backquote, code 96, is spelled out: it cannot be written in a string).
Printable ==
    << " ", "!", "\"", "#", "$", "%", "&", "'", "(", ")", "*", "+", ",", "-",
       ".", "/", "0", "1", "2", "3", "4", "5", "6", "7", "8", "9", ":", ";",
       "<", "=", ">", "?", "@", "A", "B", "C", "D", "E", "F", "G", "H", "I",
       "J", "K", "L", "M", "N", "O", "P", "Q", "R", "S", "T", "U", "V", "W",
       "X", "Y", "Z", "[", "\\", "]", "^", "_", "(backquote)", "a", "b", "c", "d", "e",
       "f", "g", "h", "i", "j", "k", "l", "m", "n", "o", "p", "q", "r", "s",
       "t", "u", "v", "w", "x", "y", "z", "{", "|", "}", "~" >>

\* The byte value of a printable ASCII character.
Codes ==
    [c \in {Printable[i] : i \in 1..Len(Printable)} |->
        31 + (CHOOSE i \in 1..Len(Printable) : Printable[i] = c)]
Ord(c) == Codes[c]

\* A string literal, written as the sequence of its characters.
Bytes(cs) == [i \in 1..Len(cs) |-> Ord(cs[i])]

\* s[i:] and s[:i] of Go, i counted from 0.
From(s, i) == SubSeq(s, i + 1, Len(s))
Upto(s, i) == SubSeq(s, 1, i)

(***************************************************************************)
(* Names for common levels (level.go, 27-33) and their upper-case names    *)
(***************************************************************************)
LevelTrace == -8
LevelDebug == -4
LevelInfo == 0
LevelWarn == 4
LevelError == 8

TRACE == Bytes(<<"T", "R", "A", "C", "E">>)
DEBUG == Bytes(<<"D", "E", "B", "U", "G">>)
INFO == Bytes(<<"I", "N", "F", "O">>)
WARN == Bytes(<<"W", "A", "R", "N">>)
ERROR == Bytes(<<"E", "R", "R", "O", "R">>)

(***************************************************************************)
(* Errors.  An error is [kind, text]: what errors.Is can tell apart, and   *)
(* the offending text its message quotes.  ErrSyntax and ErrRange are      *)
(* strconv's NumError kinds, wrapped by parse with %w; errUnknownName is   *)
(* the package's own; ErrUnquote is the strconv.ErrSyntax that             *)
(* strconv.Unquote returns, wrapped by UnmarshalJSON.                      *)
(***************************************************************************)
ErrSyntax == "strconv.Atoi: invalid syntax"
ErrRange == "strconv.Atoi: value out of range"
errUnknownName == "level has unknown name"
ErrUnquote == "strconv.Unquote: invalid syntax"

NoError == [kind |-> "nil", text |-> <<>>]
Error(kind, text) == [kind |-> kind, text |-> text]

(***************************************************************************)
(* Level.String: fmt.Sprintf("%s%+d", base, val)                           *)
(***************************************************************************)

\* The decimal digits of n >= 0, most significant first.
RECURSIVE Digits(_)
Digits(n) ==
    IF n < 10 THEN <<48 + n>>
    ELSE Digits(n \div 10) \o <<48 + (n % 10)>>

\* FmtPlusD with the verb %d: no sign before a positive number.
FmtD(val) ==
    IF val < 0 THEN <<Ord("-")>> \o Digits(-val)
    ELSE Digits(val)

\* The verb %+d: always a sign, then the magnitude.
FmtPlusD(val) ==
    IF val < 0 THEN <<Ord("-")>> \o Digits(-val)
    ELSE <<Ord("+")>> \o Digits(val)

\* The closure str of Level.String.
str(base, val) ==
    IF val = 0 THEN base
    ELSE base \o FmtPlusD(val)

\* String with each band closed above: l <= next anchor instead of l < it.
StringInclusive(l) ==
    CASE l <= LevelDebug -> str(TRACE, l - LevelTrace)
      [] l > LevelDebug /\ l <= LevelInfo -> str(DEBUG, l - LevelDebug)
      [] l > LevelInfo /\ l <= LevelWarn -> str(INFO, l - LevelInfo)
      [] l > LevelWarn /\ l <= LevelError -> str(WARN, l - LevelWarn)
      [] OTHER -> str(ERROR, l - LevelError)

String(l) ==
    CASE l < LevelDebug -> str(TRACE, l - LevelTrace)
      [] l >= LevelDebug /\ l < LevelInfo -> str(DEBUG, l - LevelDebug)
      [] l >= LevelInfo /\ l < LevelWarn -> str(INFO, l - LevelInfo)
      [] l >= LevelWarn /\ l < LevelError -> str(WARN, l - LevelWarn)
      [] OTHER -> str(ERROR, l - LevelError)

(***************************************************************************)
(* strconv.Atoi                                                            *)
(***************************************************************************)
IsDigit(c) == c >= 48 /\ c <= 57

\* A digit string without its leading zeros.
RECURSIVE StripZeros(_)
StripZeros(ds) ==
    IF ds # <<>> /\ Head(ds) = 48 THEN StripZeros(Tail(ds)) ELSE ds

\* Lexicographic a > b for digit strings of the same length.
RECURSIVE LexGT(_, _)
LexGT(a, b) ==
    IF a = <<>> THEN FALSE
    ELSE IF Head(a) # Head(b) THEN Head(a) > Head(b)
    ELSE LexGT(Tail(a), Tail(b))

\* The number written by the digits ds is greater than the one written by lim.
DecGT(ds, lim) ==
    LET a == StripZeros(ds)
        b == StripZeros(lim)
    IN IF Len(a) # Len(b) THEN Len(a) > Len(b) ELSE LexGT(a, b)

\* 1<<64 - 1, 1<<63 - 1 and 1<<63, as digit strings.
MaxUint64Digits ==
    Bytes(<<"1", "8", "4", "4", "6", "7", "4", "4", "0", "7",
            "3", "7", "0", "9", "5", "5", "1", "6", "1", "5">>)
MaxInt64Digits ==
    Bytes(<<"9", "2", "2", "3", "3", "7", "2", "0", "3", "6",
            "8", "5", "4", "7", "7", "5", "8", "0", "7">>)
MinInt64Digits ==
    Bytes(<<"9", "2", "2", "3", "3", "7", "2", "0", "3", "6",
            "8", "5", "4", "7", "7", "5", "8", "0", "8">>)

\* DecValue that keeps the last digit only (n = d instead of n = n*10 + d).
DecValueLastDigit(ds) ==
    IF ds = <<>> THEN 0 ELSE ds[Len(ds)] - 48

\* The number written by a string of digits.
RECURSIVE DecValue(_)
DecValue(ds) ==
    IF ds = <<>> THEN 0
    ELSE 10 * DecValue(Upto(ds, Len(ds) - 1)) + (ds[Len(ds)] - 48)

\* The int strconv.Atoi returns with a range error: 1<<63 - 1, or -1<<63 for
\* a negative number.  They are written as their decimal text.
MaxInt64 == "9223372036854775807"
MinInt64 == "-9223372036854775808"

\* strconv.Atoi(s): [n |-> the number, err |-> "nil"] or an error kind; n is
\* 0 with a syntax error and the nearest 64-bit int with a range error.
\* The digits are scanned left to right: the first byte that is no digit is
\* a syntax error, unless the digits before it already exceed 64 unsigned
\* bits, which is a range error found first; digits that scan to the end are
\* a range error when they exceed the signed 64-bit limit.
Atoi(s) ==
    LET signed == s # <<>> /\ s[1] \in {Ord("+"), Ord("-")}
        neg == s # <<>> /\ s[1] = Ord("-")
        ds == IF signed THEN Tail(s) ELSE s
        bad == {i \in 1..Len(ds) : ~IsDigit(ds[i])}
        firstBad == CHOOSE i \in bad : \A j \in bad : i <= j
    IN IF ds = <<>> THEN [n |-> 0, err |-> ErrSyntax]
       ELSE IF bad # {} THEN
           IF DecGT(Upto(ds, firstBad - 1), MaxUint64Digits)
           THEN [n |-> IF neg THEN MinInt64 ELSE MaxInt64, err |-> ErrRange]
           ELSE [n |-> 0, err |-> ErrSyntax]
       ELSE IF DecGT(ds, IF neg THEN MinInt64Digits ELSE MaxInt64Digits)
           THEN [n |-> IF neg THEN MinInt64 ELSE MaxInt64, err |-> ErrRange]
       ELSE [n |-> IF neg THEN -DecValue(ds) ELSE DecValue(ds),
             err |-> "nil"]

(***************************************************************************)
(* unicode/utf8                                                            *)
(***************************************************************************)
RuneSelf == 128
MaxRune == 1114111
RuneError == 65533

\* utf8.DecodeRuneInString: the first rune of a non-empty s and its width;
\* an invalid encoding is utf8.RuneError of width 1.
IsCont(s, i, lo, hi) == Len(s) >= i /\ s[i] >= lo /\ s[i] <= hi
DecodeRune(s) ==
    LET b == s[1]
        lo2 == IF b = 224 THEN 160 ELSE IF b = 240 THEN 144 ELSE 128
        hi2 == IF b = 237 THEN 159 ELSE IF b = 244 THEN 143 ELSE 191
    IN IF b < RuneSelf THEN [r |-> b, size |-> 1]
       ELSE IF b >= 194 /\ b <= 223 /\ IsCont(s, 2, 128, 191)
           THEN [r |-> (b % 32) * 64 + (s[2] % 64), size |-> 2]
       ELSE IF b >= 224 /\ b <= 239 /\ IsCont(s, 2, lo2, hi2)
               /\ IsCont(s, 3, 128, 191)
           THEN [r |-> (b % 16) * 4096 + (s[2] % 64) * 64 + (s[3] % 64),
                 size |-> 3]
       ELSE IF b >= 240 /\ b <= 244 /\ IsCont(s, 2, lo2, hi2)
               /\ IsCont(s, 3, 128, 191) /\ IsCont(s, 4, 128, 191)
           THEN [r |-> (b % 8) * 262144 + (s[2] % 64) * 4096
                        + (s[3] % 64) * 64 + (s[4] % 64),
                 size |-> 4]
       ELSE [r |-> RuneError, size |-> 1]

\* utf8.AppendRune(nil, r) for a valid rune r.
EncodeRune(r) ==
    IF r < 128 THEN <<r>>
    ELSE IF r < 2048 THEN <<192 + (r \div 64), 128 + (r % 64)>>
    ELSE IF r < 65536
        THEN <<224 + (r \div 4096), 128 + ((r \div 64) % 64), 128 + (r % 64)>>
    ELSE <<240 + (r \div 262144), 128 + ((r \div 4096) % 64),
           128 + ((r \div 64) % 64), 128 + (r % 64)>>

ValidRune(r) == (r >= 0 /\ r < 55296) \/ (r > 57343 /\ r <= MaxRune)

RECURSIVE ValidString(_)
ValidString(s) ==
    IF s = <<>> THEN TRUE
    ELSE LET d == DecodeRune(s)
         IN IF d.r = RuneError /\ d.size = 1 THEN FALSE
            ELSE ValidString(From(s, d.size))

(***************************************************************************)
(* strings.IndexAny and strings.ToUpper                                    *)
(***************************************************************************)

\* The index, from 0, of the first byte of s that is in chars, or -1.
IndexAny(s, chars) ==
    LET hits == {i \in 1..Len(s) : s[i] \in chars}
    IN IF hits = {} THEN -1
       ELSE (CHOOSE i \in hits : \A j \in hits : i <= j) - 1

\* The last rune of the case and print tables below: they cover ASCII, the
\* Latin-1 Supplement and Latin Extended-A, and U+FFFD.
MaxTableRune == 383

\* unicode.ToUpper(r) for a rune of the tables.  U+00B5 maps to U+039C,
\* U+00FF to U+0178, U+0131 to 'I' and U+017F to 'S'; in Latin Extended-A
\* the upper-case and lower-case letters alternate.
unicodeToUpper(r) ==
    CASE r >= 97 /\ r <= 122 -> r - 32
      [] r = 181 -> r + 743
      [] (r >= 224 /\ r <= 246) \/ (r >= 248 /\ r <= 254) -> r - 32
      [] r = 255 -> r + 121
      [] \/ r >= 256 /\ r <= 303
         \/ r >= 306 /\ r <= 311
         \/ r >= 330 /\ r <= 375 -> r - (r % 2)
      [] r = 305 -> r - 232
      [] (r >= 313 /\ r <= 328) \/ (r >= 377 /\ r <= 382) -> r - ((r + 1) % 2)
      [] r = 383 -> r - 300
      [] \/ r < 97
         \/ r >= 123 /\ r <= 180
         \/ r >= 182 /\ r <= 223
         \/ r \in {247, 304, 312, 329, 376, RuneError} -> r

\* strings.ToUpper(s): strings.Map(unicode.ToUpper, s).  The runes of s are
\* decoded one by one and the upper case of each is encoded; a byte that is
\* no valid UTF-8 decodes to utf8.RuneError and is written as U+FFFD.
\* ToUpper left out: the switch of parse on the name as written.
ToUpperOmitted(s) == s

RECURSIVE ToUpper(_)
ToUpper(s) ==
    IF s = <<>> THEN <<>>
    ELSE LET d == DecodeRune(s)
         IN EncodeRune(unicodeToUpper(d.r)) \o ToUpper(From(s, d.size))

(***************************************************************************)
(* Level.parse                                                             *)
(***************************************************************************)

\* namedLevel with the case "ERROR" assigning LevelWarn.
namedLevelErrorAsWarn(name) ==
    LET upper == ToUpper(name)
    IN CASE upper = TRACE -> [ok |-> TRUE, l |-> LevelTrace]
         [] upper = DEBUG -> [ok |-> TRUE, l |-> LevelDebug]
         [] upper = INFO -> [ok |-> TRUE, l |-> LevelInfo]
         [] upper = WARN -> [ok |-> TRUE, l |-> LevelWarn]
         [] upper = ERROR -> [ok |-> TRUE, l |-> LevelWarn]
         [] OTHER -> [ok |-> FALSE, l |-> 0]

\* The switch of parse on strings.ToUpper(name): the level the name stands
\* for, or ok = FALSE in the default case.
namedLevel(name) ==
    LET upper == ToUpper(name)
    IN CASE upper = TRACE -> [ok |-> TRUE, l |-> LevelTrace]
         [] upper = DEBUG -> [ok |-> TRUE, l |-> LevelDebug]
         [] upper = INFO -> [ok |-> TRUE, l |-> LevelInfo]
         [] upper = WARN -> [ok |-> TRUE, l |-> LevelWarn]
         [] upper = ERROR -> [ok |-> TRUE, l |-> LevelError]
         [] OTHER -> [ok |-> FALSE, l |-> 0]

\* parse that drops the error of strconv.Atoi and goes on with offset 0.
parseIgnoresAtoiError(l, s) ==
    LET i == IndexAny(s, {Ord("+"), Ord("-")})
        name == IF i >= 0 THEN Upto(s, i) ELSE s
        conv == IF i >= 0 THEN Atoi(From(s, i)) ELSE [n |-> 0, err |-> "nil"]
        named == namedLevel(name)
    IN IF named.ok THEN [l |-> named.l + conv.n, err |-> NoError]
       ELSE [l |-> l, err |-> Error(errUnknownName, name)]

\* parse that runs the switch, and assigns *l, before it converts the offset.
parseAssignsFirst(l, s) ==
    LET i == IndexAny(s, {Ord("+"), Ord("-")})
        name == IF i >= 0 THEN Upto(s, i) ELSE s
        conv == IF i >= 0 THEN Atoi(From(s, i)) ELSE [n |-> 0, err |-> "nil"]
        named == namedLevel(name)
    IN IF ~named.ok THEN [l |-> l, err |-> Error(errUnknownName, name)]
       ELSE IF conv.err # "nil" THEN [l |-> named.l, err |-> Error(conv.err, s)]
       ELSE [l |-> named.l + conv.n, err |-> NoError]

\* parse that runs the switch on the name before it converts the offset, and
\* assigns nothing on an error.
parseMatchesNameFirst(l, s) ==
    LET i == IndexAny(s, {Ord("+"), Ord("-")})
        name == IF i >= 0 THEN Upto(s, i) ELSE s
        conv == IF i >= 0 THEN Atoi(From(s, i)) ELSE [n |-> 0, err |-> "nil"]
        named == namedLevel(name)
    IN IF ~named.ok THEN [l |-> l, err |-> Error(errUnknownName, name)]
       ELSE IF conv.err # "nil" THEN [l |-> l, err |-> Error(conv.err, s)]
       ELSE [l |-> named.l + conv.n, err |-> NoError]

\* l.parse(s): the level stored in *l and the error returned, when *l held
\* l before the call.
parse(l, s) ==
    LET i == IndexAny(s, {Ord("+"), Ord("-")})
        name == IF i >= 0 THEN Upto(s, i) ELSE s
        conv == IF i >= 0 THEN Atoi(From(s, i)) ELSE [n |-> 0, err |-> "nil"]
        named == namedLevel(name)
    IN IF conv.err # "nil" THEN [l |-> l, err |-> Error(conv.err, s)]
       ELSE IF named.ok THEN [l |-> named.l + conv.n, err |-> NoError]
       ELSE [l |-> l, err |-> Error(errUnknownName, name)]

(***************************************************************************)
(* strconv.AppendQuote and strconv.Unquote, which MarshalJSON and          *)
(* UnmarshalJSON call                                                      *)
(***************************************************************************)
DoubleQuote == Ord("\"")
SingleQuote == Ord("'")
Backslash == Ord("\\")
Backquote == 96

HexDigits ==
    Bytes(<<"0", "1", "2", "3", "4", "5", "6", "7",
            "8", "9", "a", "b", "c", "d", "e", "f">>)

\* The escape letters of a Go string literal and the bytes they stand for.
EscapeLetters ==
    {<<Ord("a"), 7>>, <<Ord("b"), 8>>, <<Ord("f"), 12>>, <<Ord("n"), 10>>,
     <<Ord("r"), 13>>, <<Ord("t"), 9>>, <<Ord("v"), 11>>}

\* strconv.IsPrint(r) for a rune of the tables.
IsPrint(r) ==
    CASE r <= MaxTableRune -> (r >= 32 /\ r <= 126) \/ (r >= 161 /\ r # 173)
      [] r = RuneError -> TRUE

\* The n lower-case hexadecimal digits of v.
RECURSIVE Hex(_, _)
Hex(v, n) ==
    IF n = 0 THEN <<>> ELSE Hex(v \div 16, n - 1) \o <<HexDigits[(v % 16) + 1]>>

\* appendEscapedRune(buf, r, '"', false, false): what AppendQuote writes for
\* the rune r.
appendEscapedRune(r) ==
    IF r = DoubleQuote \/ r = Backslash THEN <<Backslash, r>>
    ELSE IF IsPrint(r) THEN EncodeRune(r)
    ELSE IF \E e \in EscapeLetters : e[2] = r
        THEN <<Backslash, (CHOOSE e \in EscapeLetters : e[2] = r)[1]>>
    ELSE IF r < 32 \/ r = 127 THEN <<Backslash, Ord("x")>> \o Hex(r, 2)
    ELSE IF r < 65536 THEN <<Backslash, Ord("u")>> \o Hex(r, 4)
    ELSE <<Backslash, Ord("U")>> \o Hex(r, 8)

\* The loop of appendQuotedWith over the runes of s: a byte that is no valid
\* UTF-8 is written as \x and its two hexadecimal digits.
RECURSIVE QuoteBody(_)
QuoteBody(s) ==
    IF s = <<>> THEN <<>>
    ELSE LET d == DecodeRune(s)
         IN IF d.size = 1 /\ d.r = RuneError
            THEN <<Backslash, Ord("x")>> \o Hex(s[1], 2) \o QuoteBody(Tail(s))
            ELSE appendEscapedRune(d.r) \o QuoteBody(From(s, d.size))

\* strconv.AppendQuote(buf, s).
AppendQuote(buf, s) == buf \o <<DoubleQuote>> \o QuoteBody(s) \o <<DoubleQuote>>

\* The value of a hexadecimal digit, or -1.
Unhex(c) ==
    IF c >= 48 /\ c <= 57 THEN c - 48
    ELSE IF c >= 97 /\ c <= 102 THEN c - 97 + 10
    ELSE IF c >= 65 /\ c <= 70 THEN c - 65 + 10
    ELSE -1

\* The value of the hexadecimal digits ds; a value beyond MaxRune is no
\* valid rune whatever follows, and is kept as it is.
RECURSIVE HexValue(_)
HexValue(ds) ==
    IF ds = <<>> THEN 0
    ELSE LET v == HexValue(Upto(ds, Len(ds) - 1))
         IN IF v > MaxRune THEN v ELSE 16 * v + Unhex(ds[Len(ds)])

UnquoteFail == [ok |-> FALSE, out |-> <<>>, rest |-> <<>>]

\* strconv.UnquoteChar(s, quote) for a non-empty s: the bytes the first
\* character or escape sequence of s stands for, and the rest of s.
UnquoteChar(s, quote) ==
    LET c == s[1]
        e == s[2]
        r == From(s, 2)
        n == IF e = Ord("x") THEN 2 ELSE IF e = Ord("u") THEN 4 ELSE 8
        hv == HexValue(Upto(r, n))
        ov == 64 * (e - 48) + 8 * (r[1] - 48) + (r[2] - 48)
    IN IF c = quote /\ quote \in {SingleQuote, DoubleQuote} THEN UnquoteFail
       ELSE IF c >= RuneSelf
           THEN [ok |-> TRUE, out |-> EncodeRune(DecodeRune(s).r),
                 rest |-> From(s, DecodeRune(s).size)]
       ELSE IF c # Backslash THEN [ok |-> TRUE, out |-> <<c>>, rest |-> Tail(s)]
       ELSE IF Len(s) <= 1 THEN UnquoteFail
       ELSE IF \E p \in EscapeLetters : p[1] = e
           THEN [ok |-> TRUE,
                 out |-> <<(CHOOSE p \in EscapeLetters : p[1] = e)[2]>>,
                 rest |-> r]
       ELSE IF e \in {Ord("x"), Ord("u"), Ord("U")}
           THEN IF Len(r) < n \/ \E j \in 1..n : Unhex(r[j]) < 0 THEN UnquoteFail
                ELSE IF e = Ord("x")
                    THEN [ok |-> TRUE, out |-> <<hv>>, rest |-> From(r, n)]
                ELSE IF ~ValidRune(hv) THEN UnquoteFail
                ELSE [ok |-> TRUE, out |-> EncodeRune(hv), rest |-> From(r, n)]
       ELSE IF e >= Ord("0") /\ e <= Ord("7")
           THEN IF Len(r) < 2 \/ \E j \in 1..2 : r[j] < 48 \/ r[j] > 55
                    THEN UnquoteFail
                ELSE IF ov > 255 THEN UnquoteFail
                ELSE [ok |-> TRUE, out |-> <<ov>>, rest |-> From(r, 2)]
       ELSE IF e = Backslash THEN [ok |-> TRUE, out |-> <<e>>, rest |-> r]
       ELSE IF e \in {SingleQuote, DoubleQuote}
           THEN IF e # quote THEN UnquoteFail
                ELSE [ok |-> TRUE, out |-> <<e>>, rest |-> r]
       ELSE UnquoteFail

\* The loop of strconv.Unquote over a quoted string with escape sequences:
\* in is the text after the opening quote, buf the bytes decoded so far.
\* It ends at the terminating quote, which nothing may follow.
RECURSIVE UnquoteLoop(_, _, _)
UnquoteLoop(in, quote, buf) ==
    IF in # <<>> /\ in[1] # quote
    THEN LET uc == UnquoteChar(in, quote)
         IN IF in[1] = 10 \/ ~uc.ok THEN [s |-> <<>>, err |-> ErrUnquote]
            ELSE IF quote = SingleQuote
                THEN IF uc.rest # <<>> /\ uc.rest[1] = quote /\ Len(uc.rest) = 1
                     THEN [s |-> buf \o uc.out, err |-> "nil"]
                     ELSE [s |-> <<>>, err |-> ErrUnquote]
            ELSE UnquoteLoop(uc.rest, quote, buf \o uc.out)
    ELSE IF in # <<>> /\ in[1] = quote /\ Len(in) = 1
        THEN [s |-> buf, err |-> "nil"]
    ELSE [s |-> <<>>, err |-> ErrUnquote]

\* strconv.Unquote(in): [s |-> the string in quotes, err |-> "nil"], or
\* ErrUnquote when in is not a quoted Go string literal.
Unquote(in) ==
    LET quote == in[1]
        end == IndexAny(Tail(in), {quote}) + 2
        inner == SubSeq(in, 2, end - 1)
        plain == \A i \in 1..end : in[i] # Backslash /\ in[i] # 10
        valid == IF quote = DoubleQuote THEN ValidString(inner)
                 ELSE inner = <<>>
                      \/ (DecodeRune(inner).size = Len(inner)
                          /\ (DecodeRune(inner).r # RuneError
                              \/ DecodeRune(inner).size # 1))
    IN IF Len(in) < 2 THEN [s |-> <<>>, err |-> ErrUnquote]
       ELSE IF end < 2 THEN [s |-> <<>>, err |-> ErrUnquote]
       ELSE IF quote = Backquote
           THEN IF end < Len(in) THEN [s |-> <<>>, err |-> ErrUnquote]
                ELSE [s |-> SelectSeq(inner, LAMBDA c : c # 13), err |-> "nil"]
       ELSE IF quote \in {DoubleQuote, SingleQuote}
           THEN IF plain /\ valid
                THEN IF end < Len(in) THEN [s |-> <<>>, err |-> ErrUnquote]
                     ELSE [s |-> inner, err |-> "nil"]
                ELSE UnquoteLoop(Tail(in), quote, <<>>)
       ELSE [s |-> <<>>, err |-> ErrUnquote]

(***************************************************************************)
(* The marshalling hooks: the bytes and the error each returns             *)
(***************************************************************************)
\* MarshalJSON without the quoting.
MarshalJSONBare(l) == [b |-> String(l), err |-> NoError]

MarshalJSON(l) == [b |-> AppendQuote(<<>>, String(l)), err |-> NoError]

\* AppendText that writes over the buffer: append(b[:0], ...).
AppendTextOverwrites(l, b) == [b |-> String(l), err |-> NoError]

AppendText(l, b) == [b |-> b \o String(l), err |-> NoError]

MarshalText(l) == AppendText(l, <<>>)

\* UnmarshalJSON that hands the bytes to parse as they are, quotes included.
UnmarshalJSONRaw(l, data) == parse(l, data)

\* UnmarshalJSON that falls back to parsing the bytes as they are when
\* strconv.Unquote rejects them.
UnmarshalJSONLenient(l, data) ==
    LET u == Unquote(data)
    IN IF u.err # "nil" THEN parse(l, data) ELSE parse(l, u.s)

\* UnmarshalJSON and UnmarshalText on destination *l = l: as parse, the level
\* stored and the error returned.
UnmarshalJSON(l, data) ==
    LET u == Unquote(data)
    IN IF u.err # "nil" THEN [l |-> l, err |-> Error(u.err, <<>>)]
       ELSE parse(l, u.s)

UnmarshalText(l, data) == parse(l, data)

(***************************************************************************)
(* Inputs.  A caller holds a Level l to encode, a Level variable dst to    *)
(* decode into, and a text s to decode.                                    *)
(***************************************************************************)

\* The levels encoded: every band, and beyond the lowest and highest anchor.
MaxLevel == 12
Levels == (0 - MaxLevel)..MaxLevel

\* The magnitudes of the offsets written in the texts.
MaxOffset == 18

Names == {TRACE, DEBUG, INFO, WARN, ERROR}

\* Every spelling of the name n in upper- and lower-case ASCII letters.
RECURSIVE CaseVariants(_)
CaseVariants(n) ==
    IF n = <<>> THEN {<<>>}
    ELSE {<<c>> \o v : c \in {Head(n), Head(n) + 32}, v \in CaseVariants(Tail(n))}
NameSpellings == UNION {CaseVariants(n) : n \in Names}

\* Name segments that are no level name: "", "dbg", "INF", "INFOS", "warn ",
\* INFO with a double quote inside, with a backslash and with a newline
\* after it, and U+0131 (dotless i, bytes C4 B1) followed by "nfo".
OtherNames ==
    {<<>>, Bytes(<<"d", "b", "g">>), Bytes(<<"I", "N", "F">>),
     Bytes(<<"I", "N", "F", "O", "S">>), Bytes(<<"w", "a", "r", "n", " ">>),
     Bytes(<<"I", "N", "\"", "F", "O">>), Bytes(<<"I", "N", "F", "O", "\\">>),
     INFO \o <<10>>, <<196, 177>> \o Bytes(<<"n", "f", "o">>),
     Bytes(<<"i", "n", "f">>) \o <<195, 182>>, <<255>>}

\* Offset segments that are signed decimal integers: every magnitude up to
\* MaxOffset with either sign, 87, and magnitudes with leading zeros.
DecimalOffsets ==
    {<<sg>> \o Digits(k) : sg \in {Ord("+"), Ord("-")}, k \in (0..MaxOffset) \cup {87}}
    \cup {Bytes(<<"+", "0", "0", "7">>), Bytes(<<"-", "0", "1", "8">>)}

\* Signed decimal integers beyond 64 bits: 2^63, -(2^63 + 1), 20 nines.
Nines20 == [i \in 1..20 |-> Ord("9")]
HugeOffsets ==
    {<<Ord("+")>> \o MinInt64Digits,
     <<Ord("-")>> \o Upto(MinInt64Digits, 18) \o <<Ord("9")>>,
     <<Ord("+")>> \o Nines20, <<Ord("-")>> \o Nines20}

\* Offset segments that are no signed decimal integer.
MalformedOffsets ==
    {Bytes(<<"+">>), Bytes(<<"-">>), Bytes(<<"+", "2", "3", "x">>),
     Bytes(<<"+", "-", "1">>), Bytes(<<"-", "-", "1">>), Bytes(<<"+", "+", "1">>),
     Bytes(<<"+", "1", "+", "2">>), Bytes(<<"-", "x">>), Bytes(<<"+", "1", " ">>),
     Bytes(<<"-", "1", "_", "0">>), <<Ord("+")>> \o Nines20 \o <<Ord("x")>>,
     Bytes(<<"+", "x">>)}

\* The texts decoded: every spelling of every name with a few offsets, and a
\* few names with every offset.
FewNames == Names \cup {Bytes(<<"E", "r", "r", "o", "r">>), Bytes(<<"d", "b", "g">>), <<>>}
FewOffsets == {<<>>, Bytes(<<"+", "3">>), Bytes(<<"-", "1", "8">>), Bytes(<<"+">>)}
Texts ==
    {n \o o : n \in NameSpellings \cup OtherNames, o \in FewOffsets}
    \cup {n \o o : n \in FewNames,
                   o \in DecimalOffsets \cup HugeOffsets \cup MalformedOffsets}

\* The buffers AppendText appends to: nil, four zero bytes, and "l=".
Buffers == {<<>>, <<0, 0, 0, 0>>, Bytes(<<"l", "=">>)}

\* The bytes a caller hands to UnmarshalJSON for the text x: x quoted by
\* strconv.AppendQuote, x in plain double quotes, in single quotes, in
\* backquotes, with one of the quotes missing, and bare.
Envelopes(x) ==
    {AppendQuote(<<>>, x), <<DoubleQuote>> \o x \o <<DoubleQuote>>,
     <<SingleQuote>> \o x \o <<SingleQuote>>, <<Backquote>> \o x \o <<Backquote>>,
     <<DoubleQuote>> \o x, x \o <<DoubleQuote>>, x}

(***************************************************************************)
(* The state machine                                                       *)
(***************************************************************************)
VARIABLES
    l,      \* the Level the encoders are called on
    dst,    \* the Level the decoders store into (*l of parse)
    s,      \* the text the caller decodes
    op,     \* the last operation called
    data,   \* its argument: the text or bytes decoded, the buffer appended to
    out,    \* the bytes the last encoder returned
    err     \* the error the last operation returned

vars == <<l, dst, s, op, data, out, err>>

\* Small input sets, paired with the full set of the other input.
FewLevels == {3}
FewTexts == {INFO, Bytes(<<"I", "N", "F", "O", "+">>), Bytes(<<"d", "b", "g">>)}

Init ==
    /\ \/ l \in Levels /\ s \in FewTexts
       \/ l \in FewLevels /\ s \in Texts
    /\ dst = 0
    /\ op = "init"
    /\ data = <<>>
    /\ out = <<>>
    /\ err = NoError

DoString ==
    /\ op' = "String"
    /\ out' = String(l)
    /\ data' = <<>>
    /\ err' = NoError
    /\ UNCHANGED <<l, dst, s>>

DoMarshalJSON ==
    /\ op' = "MarshalJSON"
    /\ out' = MarshalJSON(l).b
    /\ err' = MarshalJSON(l).err
    /\ data' = <<>>
    /\ UNCHANGED <<l, dst, s>>

DoMarshalText ==
    /\ op' = "MarshalText"
    /\ out' = MarshalText(l).b
    /\ err' = MarshalText(l).err
    /\ data' = <<>>
    /\ UNCHANGED <<l, dst, s>>

DoAppendText ==
    \E b \in Buffers :
        /\ op' = "AppendText"
        /\ data' = b
        /\ out' = AppendText(l, b).b
        /\ err' = AppendText(l, b).err
        /\ UNCHANGED <<l, dst, s>>

\* dst.parse(x), for the caller's text or the bytes an encoder returned.
DoParse ==
    \E x \in {s, out} :
        /\ op' = "parse"
        /\ data' = x
        /\ dst' = parse(dst, x).l
        /\ err' = parse(dst, x).err
        /\ UNCHANGED <<l, s, out>>

DoUnmarshalText ==
    \E x \in {s, out} :
        /\ op' = "UnmarshalText"
        /\ data' = x
        /\ dst' = UnmarshalText(dst, x).l
        /\ err' = UnmarshalText(dst, x).err
        /\ UNCHANGED <<l, s, out>>

DoUnmarshalJSON ==
    \E x \in Envelopes(s) \cup {out} :
        /\ op' = "UnmarshalJSON"
        /\ data' = x
        /\ dst' = UnmarshalJSON(dst, x).l
        /\ err' = UnmarshalJSON(dst, x).err
        /\ UNCHANGED <<l, s, out>>

Next ==
    \/ DoString
    \/ DoMarshalJSON
    \/ DoMarshalText
    \/ DoAppendText
    \/ DoParse
    \/ DoUnmarshalText
    \/ DoUnmarshalJSON

Spec == Init /\ [][Next]_vars
(***************************************************************************)
(* The properties checked.  They are stated with the vocabulary of the     *)
(* specification: the anchor of a name, the band of a value, the name      *)
(* segment and the offset segment of a text.                               *)
(***************************************************************************)
Decoders == {"parse", "UnmarshalText", "UnmarshalJSON"}

\* The anchor value of each name (the table of the data model).
AnchorOf(n) ==
    CASE n = TRACE -> -8
      [] n = DEBUG -> -4
      [] n = INFO -> 0
      [] n = WARN -> 4
      [] n = ERROR -> 8

\* The name whose band holds v: the greatest anchor not above v, and TRACE
\* for every value below DEBUG's anchor.
BandOf(v) ==
    IF v < -4 THEN TRACE
    ELSE CHOOSE n \in Names :
            /\ AnchorOf(n) <= v
            /\ \A m \in Names : AnchorOf(m) <= v => AnchorOf(m) <= AnchorOf(n)

\* The text before the first '+' or '-' of x (all of x if there is none),
\* and the text from that sign on (empty if there is none).
Signs(x) == {i \in 1..Len(x) : x[i] \in {Ord("+"), Ord("-")}}
FirstSign(x) == CHOOSE i \in Signs(x) : \A k \in Signs(x) : i <= k
NameSegment(x) == IF Signs(x) = {} THEN x ELSE SubSeq(x, 1, FirstSign(x) - 1)
OffsetSegment(x) == IF Signs(x) = {} THEN <<>> ELSE SubSeq(x, FirstSign(x), Len(x))

\* o is a sign followed by one or more decimal digits; the number a string
\* of digits writes; the value of o; whether the value fits a 64-bit int.
SignedDecimal(o) ==
    /\ Len(o) >= 2
    /\ o[1] \in {Ord("+"), Ord("-")}
    /\ \A i \in 2..Len(o) : o[i] >= Ord("0") /\ o[i] <= Ord("9")
RECURSIVE DecimalValue(_)
DecimalValue(ds) ==
    IF ds = <<>> THEN 0
    ELSE 10 * DecimalValue(SubSeq(ds, 1, Len(ds) - 1)) + (ds[Len(ds)] - Ord("0"))
OffsetValue(o) ==
    IF o = <<>> THEN 0
    ELSE IF o[1] = Ord("-") THEN 0 - DecimalValue(Tail(o))
    ELSE DecimalValue(Tail(o))
FitsInt(o) ==
    ~DecGT(Tail(o), IF o[1] = Ord("-") THEN MinInt64Digits ELSE MaxInt64Digits)

\* The spellings of each name, and the name a spelling spells.
Spellings == [n \in Names |-> CaseVariants(n)]
NameSpelled(seg) == CHOOSE n \in Names : seg \in Spellings[n]

\* ds is the decimal magnitude k > 0: digits, no leading zero, value k.
DecimalOf(ds, k) ==
    /\ ds # <<>>
    /\ \A i \in 1..Len(ds) : ds[i] >= Ord("0") /\ ds[i] <= Ord("9")
    /\ ds[1] # Ord("0")
    /\ DecimalValue(ds) = k

\* C1: for every Level l, in every band and beyond the outermost anchors,
\* parsing the string String() produced succeeds and yields exactly l.
C1_RoundTrip ==
    (op \in {"parse", "UnmarshalText"} /\ data = String(l))
        => (err = NoError /\ dst = l)

\* A level below TRACE's anchor, encoded and parsed back.
C1_Witness ==
    /\ op = "parse"
    /\ l = -11
    /\ data = Bytes(<<"T", "R", "A", "C", "E", "-", "3">>)
    /\ data = String(l)
    /\ dst = -11
    /\ err = NoError

\* C2: String() selects the greatest anchor a <= l (TRACE for every l < -4)
\* and returns the anchor's name alone when l - a = 0, otherwise the name,
\* '+' or '-', and the decimal magnitude of l - a; WARN-1 is "INFO+3",
\* DEBUG-2 is "TRACE+2", TRACE-2 is "TRACE-2".
C2_Encoding ==
    op = "String" =>
        LET n == BandOf(l)
            d == l - AnchorOf(n)
        IN /\ d = 0 => out = n
           /\ d # 0 =>
                /\ Len(out) > Len(n) + 1
                /\ SubSeq(out, 1, Len(n)) = n
                /\ out[Len(n) + 1] = (IF d > 0 THEN Ord("+") ELSE Ord("-"))
                /\ DecimalOf(SubSeq(out, Len(n) + 2, Len(out)),
                             IF d > 0 THEN d ELSE 0 - d)
           /\ l = 3 => out = Bytes(<<"I", "N", "F", "O", "+", "3">>)
           /\ l = -6 => out = Bytes(<<"T", "R", "A", "C", "E", "+", "2">>)
           /\ l = -10 => out = Bytes(<<"T", "R", "A", "C", "E", "-", "2">>)

\* TRACE - 2 encoded.
C2_Witness ==
    /\ op = "String"
    /\ l = -10
    /\ out = Bytes(<<"T", "R", "A", "C", "E", "-", "2">>)

\* C3 as stated: for every recognized name n and every well-formed signed
\* decimal offset k, parse of n followed by k succeeds with anchor(n) + k,
\* and parse of n alone succeeds with anchor(n).
C3_EveryDecimalOffset ==
    (/\ op = "parse"
     /\ NameSegment(data) \in NameSpellings
     /\ OffsetSegment(data) = <<>> \/ SignedDecimal(OffsetSegment(data)))
        => /\ err = NoError
           /\ dst = AnchorOf(NameSpelled(NameSegment(data)))
                        + OffsetValue(OffsetSegment(data))

\* C3 amended: the same for every well-formed signed decimal offset k that
\* fits a 64-bit int.
C3_OffsetInIntRange ==
    (/\ op = "parse"
     /\ NameSegment(data) \in NameSpellings
     /\ \/ OffsetSegment(data) = <<>>
        \/ SignedDecimal(OffsetSegment(data)) /\ FitsInt(OffsetSegment(data)))
        => /\ err = NoError
           /\ dst = AnchorOf(NameSpelled(NameSegment(data)))
                        + OffsetValue(OffsetSegment(data))

\* "INFO+87": an offset that leaves the band of its name.
C3_Witness ==
    /\ op = "parse"
    /\ data = Bytes(<<"I", "N", "F", "O", "+", "8", "7">>)
    /\ err = NoError
    /\ dst = 87

\* C4 as stated: parse("ERROR-18") yields the same Level as parse("INFO"),
\* both equal to INFO's anchor value 0.
C4_Error18IsInfo ==
    (/\ op = "parse"
     /\ data \in {Bytes(<<"E", "R", "R", "O", "R", "-", "1", "8">>), INFO})
        => (err = NoError /\ dst = 0)

\* C4 amended: parse("ERROR-8") yields the same Level as parse("INFO"), both
\* equal to INFO's anchor value 0; parse("ERROR-18") yields -10.
C4_Error8IsInfo ==
    /\ (/\ op = "parse"
        /\ data \in {Bytes(<<"E", "R", "R", "O", "R", "-", "8">>), INFO})
           => (err = NoError /\ dst = 0)
    /\ (/\ op = "parse"
        /\ data = Bytes(<<"E", "R", "R", "O", "R", "-", "1", "8">>))
           => (err = NoError /\ dst = -10)

\* "ERROR-8" parsed into a destination.
C4_Witness ==
    /\ op = "parse"
    /\ data = Bytes(<<"E", "R", "R", "O", "R", "-", "8">>)
    /\ err = NoError
    /\ dst = 0

\* C5: for every upper/lower-case variation of the letters of a recognized
\* name, with the same optional offset segment, parse has the outcome it has
\* for the all-upper-case spelling.
C5_CaseInsensitive ==
    (op = "parse" /\ NameSegment(data) \in NameSpellings) =>
        LET upper == NameSpelled(NameSegment(data)) \o OffsetSegment(data)
            ref == parse(dst, upper)
        IN /\ err.kind = ref.err.kind
           /\ err = NoError => dst = ref.l

\* "iNfo+3" parsed.
C5_Witness ==
    /\ op = "parse"
    /\ data = Bytes(<<"i", "N", "f", "o", "+", "3">>)
    /\ err = NoError
    /\ dst = 3

\* C6 as stated: a text whose name segment matches none of the five names
\* case-insensitively fails with the unknown-name error; a text whose offset
\* segment is present but no signed decimal integer fails with the numeric
\* error "invalid syntax"; parse never succeeds on either.
C6_ErrorKinds ==
    op = "parse" =>
        /\ NameSegment(data) \notin NameSpellings => err.kind = errUnknownName
        /\ (OffsetSegment(data) # <<>> /\ ~SignedDecimal(OffsetSegment(data)))
              => err.kind = ErrSyntax

\* C6 amended: a text whose name segment, upper-cased by strings.ToUpper, is
\* none of the five names fails with the unknown-name error provided its
\* offset segment is absent or converts without error; a text whose offset
\* segment is present but no signed decimal integer fails with a numeric
\* error whatever its name segment: "invalid syntax", or "value out of range"
\* when the digits before the first offending byte already exceed 64 bits;
\* parse never succeeds on either.
C6_ErrorKindsByOrder ==
    op = "parse" =>
        /\ (/\ ToUpper(NameSegment(data)) \notin Names
            /\ \/ OffsetSegment(data) = <<>>
               \/ SignedDecimal(OffsetSegment(data)) /\ FitsInt(OffsetSegment(data)))
              => err.kind = errUnknownName
        /\ (OffsetSegment(data) # <<>> /\ ~SignedDecimal(OffsetSegment(data)))
              => /\ err.kind \in {ErrSyntax, ErrRange}
                 /\ err.kind = ErrRange <=>
                        \E i \in 2..Len(OffsetSegment(data)) :
                            /\ \A k \in 2..i : IsDigit(OffsetSegment(data)[k])
                            /\ DecGT(SubSeq(OffsetSegment(data), 2, i),
                                     MaxUint64Digits)
        /\ (\/ ToUpper(NameSegment(data)) \notin Names
            \/ OffsetSegment(data) # <<>> /\ ~SignedDecimal(OffsetSegment(data)))
              => err # NoError

\* "ERROR+23x" rejected with the numeric error.
C6_Witness ==
    /\ op = "parse"
    /\ data = Bytes(<<"E", "R", "R", "O", "R", "+", "2", "3", "x">>)
    /\ err.kind = ErrSyntax

\* C7: MarshalJSON returns the canonical string of l in double quotes and no
\* error (WARN-3 gives "INFO+1" with quotes), and UnmarshalJSON applied to
\* those bytes succeeds and sets the destination to exactly l.
C7_JSONRoundTrip ==
    /\ op = "MarshalJSON" =>
          /\ err = NoError
          /\ out = <<DoubleQuote>> \o String(l) \o <<DoubleQuote>>
          /\ l = 1 => out = <<34>> \o Bytes(<<"I", "N", "F", "O", "+", "1">>) \o <<34>>
    /\ (op = "UnmarshalJSON"
        /\ data = <<DoubleQuote>> \o String(l) \o <<DoubleQuote>>)
          => (err = NoError /\ dst = l)

\* A level above ERROR's anchor marshalled and unmarshalled.
C7_Witness ==
    /\ op = "UnmarshalJSON"
    /\ l = 10
    /\ data = <<34>> \o Bytes(<<"E", "R", "R", "O", "R", "+", "2">>) \o <<34>>
    /\ data = out
    /\ err = NoError
    /\ dst = 10

\* C8: AppendText(b) returns b's bytes unchanged and in order, followed by
\* exactly the bytes of String(l); MarshalText(l) is exactly the bytes of
\* String(l).
C8_AppendKeepsBuffer ==
    /\ op = "AppendText" =>
          /\ err = NoError
          /\ Len(out) = Len(data) + Len(String(l))
          /\ SubSeq(out, 1, Len(data)) = data
          /\ SubSeq(out, Len(data) + 1, Len(out)) = String(l)
    /\ op = "MarshalText" => (err = NoError /\ out = String(l))

\* WARN-3 appended to four zero bytes.
C8_Witness ==
    /\ op = "AppendText"
    /\ l = 1
    /\ data = <<0, 0, 0, 0>>
    /\ out = <<0, 0, 0, 0>> \o Bytes(<<"I", "N", "F", "O", "+", "1">>)

\* C9: UnmarshalText on the bytes of s has the outcome of parse(s), and
\* UnmarshalJSON on s quoted (strconv.Quote) has the outcome of parse(s): the
\* same Level stored, or the same error.
C9_HooksDelegate ==
    /\ op = "UnmarshalText" =>
          /\ err = parse(dst, data).err
          /\ err = NoError => dst = parse(dst, data).l
    /\ (op = "UnmarshalJSON" /\ data = AppendQuote(<<>>, s)) =>
          /\ err = parse(dst, s).err
          /\ err = NoError => dst = parse(dst, s).l

\* A text with a double quote inside, quoted and unmarshalled: the error
\* names the text as parse names it.
C9_Witness ==
    /\ op = "UnmarshalJSON"
    /\ s = Bytes(<<"I", "N", "\"", "F", "O">>)
    /\ data = AppendQuote(<<>>, s)
    /\ data # <<DoubleQuote>> \o s \o <<DoubleQuote>>
    /\ err = Error(errUnknownName, s)

\* C10: whenever parse, UnmarshalText or UnmarshalJSON returns an error, the
\* destination Level holds the value it held before the call.
C10_NoPartialMutation ==
    [][(op' \in Decoders /\ err' # NoError) => dst' = dst]_vars

\* "INFO+" rejected after the destination was set to 3: the name is valid,
\* the offset is not, and the destination still holds 3.
C10_Witness ==
    /\ op = "parse"
    /\ data = Bytes(<<"I", "N", "F", "O", "+">>)
    /\ err.kind = ErrSyntax
    /\ dst = 3

\* The bytes x fail to be a quoted string: they are bare or lack the opening
\* or the closing quote; or they stand in double quotes and the body holds a
\* quote no backslash precedes, a raw newline, or a lone backslash before
\* the closing quote; or they stand in single quotes around more than one
\* plain ASCII character.
QuoteChars == {DoubleQuote, SingleQuote, Backquote}
Unenclosed(x) ==
    \/ Len(x) < 2
    \/ x[1] \notin QuoteChars
    \/ x[Len(x)] # x[1]
BrokenDoubleQuoted(x) ==
    /\ ~Unenclosed(x)
    /\ x[1] = DoubleQuote
    /\ \/ \E i \in 2..(Len(x) - 1) :
              \/ x[i] = DoubleQuote /\ x[i - 1] # Backslash
              \/ x[i] = 10
       \/ /\ Len(x) >= 4
          /\ x[Len(x) - 1] = Backslash
          /\ x[Len(x) - 2] # Backslash
SeveralInSingleQuotes(x) ==
    /\ ~Unenclosed(x)
    /\ x[1] = SingleQuote
    /\ Len(x) >= 4
    /\ \A i \in 2..(Len(x) - 1) : x[i] < RuneSelf /\ x[i] # Backslash
NotAQuotedString(x) ==
    Unenclosed(x) \/ BrokenDoubleQuoted(x) \/ SeveralInSingleQuotes(x)

\* C11: UnmarshalJSON applied to bytes that are not a validly quoted string
\* (bare text, a missing or unterminated quote, a broken body) returns the
\* format error of the unquoting, never an error or a result of parse, and
\* leaves the destination as it was, even when the text between or without
\* the quotes is a valid level string.
C11_FormatErrorBeforeParse ==
    [][(op' = "UnmarshalJSON" /\ NotAQuotedString(data'))
          => /\ err' = Error(ErrUnquote, <<>>)
             /\ dst' = dst]_vars

\* The bare text INFO, a valid level string, handed to UnmarshalJSON while
\* the destination holds 3: the format error, and the destination still 3
\* where parse would have stored 0.
C11_Witness ==
    /\ op = "UnmarshalJSON"
    /\ data = INFO
    /\ NotAQuotedString(data)
    /\ parse(3, data) = [l |-> 0, err |-> NoError]
    /\ err.kind = ErrUnquote
    /\ dst = 3

\* C12: parse checks the offset segment before the name segment.  A text
\* with an unrecognized name and a malformed offset ("dbg+", "+x") gets the
\* numeric error, not the unknown-name error; the unknown-name error is
\* returned only for a text whose offset segment is absent or a well-formed
\* signed decimal ("dbg+1" and "+2" get it).
C12_OffsetCheckedFirst ==
    op = "parse" =>
        /\ (/\ NameSegment(data) \notin NameSpellings
            /\ OffsetSegment(data) # <<>>
            /\ ~SignedDecimal(OffsetSegment(data)))
              => err.kind \in {ErrSyntax, ErrRange}
        /\ err.kind = errUnknownName
              => \/ OffsetSegment(data) = <<>>
                 \/ SignedDecimal(OffsetSegment(data))
        /\ data \in {Bytes(<<"d", "b", "g", "+">>), Bytes(<<"+", "x">>)}
              => err.kind = ErrSyntax
        /\ data = Bytes(<<"d", "b", "g", "+", "1">>)
              => err = Error(errUnknownName, Bytes(<<"d", "b", "g">>))
        /\ data = Bytes(<<"+", "2">>)
              => err = Error(errUnknownName, <<>>)

\* "dbg+": neither segment is good, and the error is the numeric one.
C12_Witness ==
    /\ op = "parse"
    /\ data = Bytes(<<"d", "b", "g", "+">>)
    /\ NameSegment(data) \notin NameSpellings
    /\ ~SignedDecimal(OffsetSegment(data))
    /\ err.kind = ErrSyntax
=============================================================================
